---- MODULE Spec2Model ----
(***************************************************************************)
(* Binomial (Cox-Ross-Rubinstein) lattice option pricers of                *)
(* src/binomial_pricing.py: binomial_option_pricing_european and           *)
(* binomial_option_pricing_american, executed side by side on identical    *)
(* parameters, one statement (or loop iteration) per step.                 *)
(*                                                                         *)
(* Numbers.  Python floats are modelled as exact rationals <<num, den>>    *)
(* with den > 0 in lowest terms, so the model has no rounding error.       *)
(* math.sqrt and math.exp are tabulated on the arguments the inputs reach  *)
(* (SqrtTable, ExpTable); the inputs are restricted to those whose         *)
(* arguments are tabulated (MathTabulated).                                *)
(***************************************************************************)
EXTENDS Integers, Sequences, FiniteSets

(***************************************************************************)
(* Bound of the model: the largest number of time steps N.                 *)
(***************************************************************************)
MaxN == 3

(***************************************************************************)
(* Exact rational arithmetic (the model of Python float arithmetic).       *)
(***************************************************************************)
Abs(x) == IF x < 0 THEN -x ELSE x

RECURSIVE Gcd(_, _)
Gcd(x, y) == IF y = 0 THEN x ELSE Gcd(y, x % y)

\* num/den in lowest terms with a positive denominator (den # 0)
Rat(num, den) ==
    LET g == Gcd(Abs(num), Abs(den))
        s == IF den < 0 THEN -1 ELSE 1
    IN  <<(s * num) \div g, (s * den) \div g>>

RInt(x) == <<x, 1>>
Zero == RInt(0)
One == RInt(1)

RNeg(x) == <<-x[1], x[2]>>

RAdd(x, y) ==
    LET g == Gcd(x[2], y[2])
    IN  Rat(x[1] * (y[2] \div g) + y[1] * (x[2] \div g), (x[2] \div g) * y[2])

RSub(x, y) == RAdd(x, RNeg(y))

\* cross-cancel before multiplying, so that intermediate products stay small
RMul(x, y) ==
    LET g1 == Gcd(Abs(x[1]), y[2])
        g2 == Gcd(Abs(y[1]), x[2])
    IN  IF x[1] = 0 \/ y[1] = 0 THEN Zero
        ELSE Rat((x[1] \div g1) * (y[1] \div g2), (x[2] \div g2) * (y[2] \div g1))

\* x / y for y # 0
RDiv(x, y) == RMul(x, Rat(y[2], y[1]))

\* comparisons, by the sign of the numerator of x - y over the common denominator
RCompare(x, y) ==
    LET g == Gcd(x[2], y[2])
    IN  x[1] * (y[2] \div g) - y[1] * (x[2] \div g)

RLt(x, y) == RCompare(x, y) < 0
RLe(x, y) == RCompare(x, y) <= 0

\* Python's max(x, y): x unless y > x
RMax(x, y) == IF RLt(x, y) THEN y ELSE x

\* x ** k for an integer k >= 0
RECURSIVE RPow(_, _)
RPow(x, k) == IF k = 0 THEN One ELSE RMul(x, RPow(x, k - 1))

\* the value of a name that is not bound yet
Undef == <<0, 0>>

(***************************************************************************)
(* math.sqrt and math.exp, tabulated.  Each pair is <<argument, value>>.   *)
(* The exp values are rational approximations, within 0.05 percent, of     *)
(* e^x: 0.693 ~ ln 2, 1.0986 ~ ln 3, 1.3863 ~ ln 4, 0.405 ~ ln 3/2,        *)
(* 0.288 ~ ln 4/3, 0.2231 ~ ln 5/4, e^0.2 ~ 171/140 = 1.22143,             *)
(* e^0.05 ~ 41/39 = 1.05128.  The table keeps exp(-x) = 1 / exp(x).        *)
(***************************************************************************)
SqrtTable ==
    { <<Rat(0, 1), Rat(0, 1)>>, <<Rat(1, 1), Rat(1, 1)>>, <<Rat(4, 1), Rat(2, 1)>> }

ExpTable ==
    { <<Rat(0, 1), Rat(1, 1)>>,
      <<Rat(693, 1000), Rat(2, 1)>>,     <<Rat(-693, 1000), Rat(1, 2)>>,
      <<Rat(10986, 10000), Rat(3, 1)>>,  <<Rat(-10986, 10000), Rat(1, 3)>>,
      <<Rat(405, 1000), Rat(3, 2)>>,     <<Rat(-405, 1000), Rat(2, 3)>>,
      <<Rat(288, 1000), Rat(4, 3)>>,     <<Rat(-288, 1000), Rat(3, 4)>>,
      <<Rat(2231, 10000), Rat(5, 4)>>,
      <<Rat(13863, 10000), Rat(4, 1)>>,  <<Rat(-13863, 10000), Rat(1, 4)>>,
      <<Rat(1, 5), Rat(171, 140)>>,      <<Rat(-1, 5), Rat(140, 171)>>,
      <<Rat(1, 20), Rat(41, 39)>>,       <<Rat(-1, 20), Rat(39, 41)>> }

Tabulated(table, x) == \E e \in table : e[1] = x
Lookup(table, x) == (CHOOSE e \in table : e[1] = x)[2]

\* math.sqrt(x) for x >= 0 (x < 0 raises ValueError, see ComputeFactors)
math_sqrt(x) == Lookup(SqrtTable, x)

\* math.exp(x)
math_exp(x) == Lookup(ExpTable, x)

(***************************************************************************)
(* The parameters of one call and the state of its execution.              *)
(*   S, K, T, r, sigma, N, option_type   the arguments (lines 3, 56)       *)
(*   delta_t, u, d, p                    the lattice constants             *)
(*   asset_prices                        terminal asset prices             *)
(*   european_values, american_values    the buffer option_values of each  *)
(*                                       pricer (index k of the code is    *)
(*                                       position k + 1 of the sequence)   *)
(*   i, j                                the loop variables                *)
(*   pc, error                           the statement reached, and the    *)
(*                                       exception raised, if any          *)
(*   european_price, american_price      the values returned               *)
(* History variables, not in the code:                                     *)
(*   european_prev, american_prev        the buffers as they were when the *)
(*                                       current depth j was entered       *)
(*   visited                             the nodes <<j, i>> updated so far *)
(***************************************************************************)
VARIABLES S, K, T, r, sigma, N, option_type,
          delta_t, u, d, p, asset_prices,
          european_values, american_values, i, j, pc, error,
          european_price, american_price,
          european_prev, american_prev, visited

params == <<S, K, T, r, sigma, N, option_type>>
constants == <<delta_t, u, d, p>>
buffers == <<european_values, american_values>>
history == <<european_prev, american_prev, visited>>
results == <<european_price, american_price>>
vars == <<params, constants, asset_prices, buffers, i, j, pc, error, results, history>>

(***************************************************************************)
(* Inputs.  GridInputs: volatilities and rates whose exponentials are      *)
(* small rationals, with every sign and the zero of each parameter.        *)
(* DecimalInputs: the one-step example S = 100, T = 1, r = 0.05,           *)
(* sigma = 0.2 with strikes around the money.  SteepInputs: a three-step   *)
(* lattice with a small up factor (5/4) and a large rate (e^r = 4).        *)
(***************************************************************************)
OptionTypes == {"call", "put", "straddle"}

GridInputs ==
    [ S : {-100, 0, 100},
      K : {-100, 0, 50, 100, 300},
      T : {-1, 0} \cup (1..MaxN) \cup {4 * n : n \in 1..MaxN},
      r : { Rat(-10986, 10000), Rat(-693, 1000), Rat(-288, 1000), Rat(-72, 1000),
            Zero, Rat(405, 1000), Rat(693, 1000), Rat(10986, 10000) },
      sigma : { Rat(-693, 1000), Zero, Rat(3465, 10000), Rat(693, 1000) },
      N : -1..MaxN,
      option_type : OptionTypes ]

DecimalInputs ==
    [ S : {100}, K : {90, 100, 110}, T : {1}, r : {Rat(1, 20)},
      sigma : {Rat(1, 5)}, N : {1}, option_type : OptionTypes ]

SteepInputs ==
    [ S : {100}, K : {80}, T : {3}, r : {Rat(13863, 10000)},
      sigma : {Rat(2231, 10000)}, N : {3}, option_type : OptionTypes ]

\* every math.sqrt and math.exp call the execution reaches is tabulated
MathTabulated(in) ==
    \/ in.N = 0
    \/ in.T * in.N < 0
    \/ LET dt == Rat(in.T, in.N)
       IN  /\ Tabulated(SqrtTable, dt)
           /\ Tabulated(ExpTable, RMul(in.sigma, math_sqrt(dt)))
           /\ Tabulated(ExpTable, RMul(in.r, dt))
           /\ Tabulated(ExpTable, RNeg(RMul(in.r, dt)))

Inputs == { in \in GridInputs \cup DecimalInputs \cup SteepInputs : MathTabulated(in) }

\* before the call: no argument is bound yet
Init ==
    /\ S = Undef
    /\ K = Undef
    /\ T = 0
    /\ r = Undef
    /\ sigma = Undef
    /\ N = 0
    /\ option_type = "unbound"
    /\ delta_t = Undef
    /\ u = Undef
    /\ d = Undef
    /\ p = Undef
    /\ asset_prices = <<>>
    /\ european_values = <<>>
    /\ american_values = <<>>
    /\ i = 0
    /\ j = 0
    /\ pc = "call"
    /\ error = "none"
    /\ european_price = Undef
    /\ american_price = Undef
    /\ european_prev = <<>>
    /\ american_prev = <<>>
    /\ visited = <<>>

\* lines 3, 56 (and 122-126): both pricers are called with the same arguments
Call ==
    /\ pc = "call"
    /\ \E in \in Inputs :
         /\ S' = RInt(in.S)
         /\ K' = RInt(in.K)
         /\ T' = in.T
         /\ r' = in.r
         /\ sigma' = in.sigma
         /\ N' = in.N
         /\ option_type' = in.option_type
    /\ pc' = "delta_t"
    /\ UNCHANGED <<constants, asset_prices, buffers, i, j, error, results, history>>

\* an exception leaves the function: nothing is returned
Raise(exception) ==
    /\ pc' = "error"
    /\ error' = exception

(***************************************************************************)
(* The statements of the two pricers.  Lines 19-44 of the European pricer  *)
(* and lines 72-97 of the American pricer are the same text, so one step   *)
(* of the model executes the statement in both calls.                      *)
(***************************************************************************)

\* lines 20, 73: delta_t = T / N
ComputeDeltaT ==
    /\ pc = "delta_t"
    /\ IF N = 0
       THEN /\ Raise("ZeroDivisionError")
            /\ UNCHANGED delta_t
       ELSE /\ delta_t' = Rat(T, N)
            /\ pc' = "factors"
            /\ UNCHANGED error
    /\ UNCHANGED <<params, u, d, p, asset_prices, buffers, i, j, results, history>>

\* lines 23-24, 76-77: u = math.exp(sigma * math.sqrt(delta_t)); d = 1 / u
UpFactor == math_exp(RMul(sigma, math_sqrt(delta_t)))

DownFactor(up) == RDiv(One, up)

ComputeFactors ==
    /\ pc = "factors"
    /\ IF RLt(delta_t, Zero)
       THEN /\ Raise("ValueError: math domain error")
            /\ UNCHANGED <<u, d>>
       ELSE /\ u' = UpFactor
            /\ d' = DownFactor(UpFactor)
            /\ pc' = "probability"
            /\ UNCHANGED error
    /\ UNCHANGED <<params, delta_t, p, asset_prices, buffers, i, j, results, history>>

\* a variant that leaves the growth factor exp(r * delta_t) out of p
RiskNeutralProbabilityNoDrift ==
    RDiv(RSub(One, d), RSub(u, d))

\* lines 27, 80: p = (math.exp(r * delta_t) - d) / (u - d)
RiskNeutralProbability ==
    RDiv(RSub(math_exp(RMul(r, delta_t)), d), RSub(u, d))

ComputeProbability ==
    /\ pc = "probability"
    /\ IF RSub(u, d) = Zero
       THEN /\ Raise("ZeroDivisionError")
            /\ UNCHANGED p
       ELSE /\ p' = RiskNeutralProbability
            /\ pc' = "arrays"
            /\ UNCHANGED error
    /\ UNCHANGED <<params, delta_t, u, d, asset_prices, buffers, i, j, results, history>>

\* range(N + 1) has N + 1 elements, none when N + 1 <= 0
Length == IF N + 1 > 0 THEN N + 1 ELSE 0

\* lines 35, 88: S * (u ** (N - i)) * (d ** i), at depth and index (depth, k)
AssetPrice(depth, k) == RMul(RMul(S, RPow(u, depth - k)), RPow(d, k))

\* lines 30-35, 83-88: the two arrays, then the asset prices at maturity
ComputeAssetPrices ==
    /\ pc = "arrays"
    /\ asset_prices' = [k \in 1..Length |-> AssetPrice(N, k - 1)]
    /\ european_values' = [k \in 1..Length |-> Zero]
    /\ american_values' = [k \in 1..Length |-> Zero]
    /\ i' = 0
    /\ pc' = "payoff"
    /\ UNCHANGED <<params, constants, j, error, results, history>>

\* a variant without the else branch: any other option_type is priced as a put
HasPayoffDefaulted(type) == TRUE

\* lines 39-44, 92-97: the payoff at maturity; an option_type that is neither
\* 'call' nor 'put' has no payoff (the else branch raises)
HasPayoff(type) == type \in {"call", "put"}

TerminalPayoff(type, asset_price) ==
    IF type = "call" THEN RMax(Zero, RSub(asset_price, K))
    ELSE RMax(Zero, RSub(K, asset_price))

\* lines 38-44, 91-97: one iteration of the loop over range(N + 1)
PayoffStep ==
    /\ pc = "payoff"
    /\ i < Length
    /\ IF HasPayoff(option_type)
       THEN /\ european_values' =
                  [european_values EXCEPT ![i + 1] = TerminalPayoff(option_type, asset_prices[i + 1])]
            /\ american_values' =
                  [american_values EXCEPT ![i + 1] = TerminalPayoff(option_type, asset_prices[i + 1])]
            /\ i' = i + 1
            /\ UNCHANGED <<pc, error>>
       ELSE /\ Raise("ValueError: option_type must be 'call' or 'put'")
            /\ UNCHANGED <<buffers, i>>
    /\ UNCHANGED <<params, constants, asset_prices, j, results, history>>

\* a variant that steps the depth by -2
NextDepthSkip(depth) == depth - 2

\* lines 47, 100: range(N - 1, -1, -1) starts at N - 1 and steps by -1
FirstDepth == N - 1

NextDepth(depth) == depth - 1

\* the payoff loop is exhausted: enter the backward induction (lines 47, 100)
PayoffDone ==
    /\ pc = "payoff"
    /\ i >= Length
    /\ IF FirstDepth >= 0
       THEN /\ pc' = "induction"
            /\ j' = FirstDepth
            /\ i' = 0
            /\ european_prev' = european_values
            /\ american_prev' = american_values
       ELSE /\ pc' = "return"
            /\ UNCHANGED <<i, j, european_prev, american_prev>>
    /\ UNCHANGED <<params, constants, asset_prices, buffers, error, results, visited>>

\* a variant that walks the indices right to left: j, j - 1, ..., 0
InnerIndexReversed(depth, k) == depth - k

\* lines 48, 101: range(j + 1) visits 0, 1, ..., j; InnerIndex(depth, k) is the
\* index its k-th iteration visits, InnerCount(depth) the number of iterations
InnerCount(depth) == depth + 1

InnerIndex(depth, k) == k

\* lines 49-51 (and 103-105): the discounted expectation over the two children
Continuation(values, k) ==
    RMul(RAdd(RMul(p, values[k + 1]), RMul(RSub(One, p), values[k + 2])),
         math_exp(RNeg(RMul(r, delta_t))))

\* lines 49-51: the European node update
EuropeanNode(values, k) == Continuation(values, k)

\* a variant that exercises at the terminal asset price asset_prices[k]
\* instead of recomputing the price of node (depth, k)
AmericanNodeTerminalPrice(values, depth, k) ==
    LET asset_price == asset_prices[k + 1]
        option_value == Continuation(values, k)
    IN  IF option_type = "call" THEN RMax(option_value, RSub(asset_price, K))
        ELSE IF option_type = "put" THEN RMax(option_value, RSub(K, asset_price))
        ELSE values[k + 1]

\* lines 102-109: the American node update
AmericanNode(values, depth, k) ==
    LET asset_price == AssetPrice(depth, k)
        option_value == Continuation(values, k)
    IN  IF option_type = "call" THEN RMax(option_value, RSub(asset_price, K))
        ELSE IF option_type = "put" THEN RMax(option_value, RSub(K, asset_price))
        ELSE values[k + 1]

\* lines 48-51, 101-109: one iteration of the inner loop, in both pricers
InductionStep ==
    /\ pc = "induction"
    /\ i < InnerCount(j)
    /\ LET k == InnerIndex(j, i)
       IN  /\ european_values' =
                 [european_values EXCEPT ![k + 1] = EuropeanNode(european_values, k)]
           /\ american_values' =
                 [american_values EXCEPT ![k + 1] = AmericanNode(american_values, j, k)]
           /\ visited' = Append(visited, <<j, k>>)
    /\ i' = i + 1
    /\ UNCHANGED <<params, constants, asset_prices, j, pc, error, results,
                   european_prev, american_prev>>

\* the inner loop is exhausted: the next depth, or the end of the outer loop
DepthDone ==
    /\ pc = "induction"
    /\ i >= InnerCount(j)
    /\ IF NextDepth(j) >= 0
       THEN /\ j' = NextDepth(j)
            /\ i' = 0
            /\ european_prev' = european_values
            /\ american_prev' = american_values
            /\ UNCHANGED pc
       ELSE /\ pc' = "return"
            /\ UNCHANGED <<i, j, european_prev, american_prev>>
    /\ UNCHANGED <<params, constants, asset_prices, buffers, error, results, visited>>

\* lines 53, 111: return option_values[0]
Return ==
    /\ pc = "return"
    /\ IF Len(european_values) = 0
       THEN /\ Raise("IndexError")
            /\ UNCHANGED results
       ELSE /\ european_price' = european_values[1]
            /\ american_price' = american_values[1]
            /\ pc' = "done"
            /\ UNCHANGED error
    /\ UNCHANGED <<params, constants, asset_prices, buffers, i, j, history>>

\* the statements of a call that has been made
Run ==
    \/ ComputeDeltaT
    \/ ComputeFactors
    \/ ComputeProbability
    \/ ComputeAssetPrices
    \/ PayoffStep
    \/ PayoffDone
    \/ InductionStep
    \/ DepthDone
    \/ Return

Next ==
    \/ Call
    \/ Run

Spec == Init /\ [][Next]_vars

TypeOK ==
    /\ pc \in {"call", "delta_t", "factors", "probability", "arrays", "payoff",
               "induction", "return", "done", "error"}
    /\ (pc = "error") <=> (error # "none")
    /\ Len(european_values) = Len(american_values)

(***************************************************************************)
(* Vocabulary of the properties.                                           *)
(***************************************************************************)
Positive(x) == RLt(Zero, x)

\* option_type is one of the two documented values (lines 14, 67)
Recognised == option_type \in {"call", "put"}

\* the call has been made: the arguments are bound
Called == pc # "call"

\* the parameters satisfy the preconditions of the data model
ValidParams ==
    /\ Called
    /\ Positive(S)
    /\ Positive(K)
    /\ T > 0
    /\ Positive(sigma)
    /\ N >= 1

\* how many of the five preconditions the parameters violate
Violations ==
    Cardinality({ c \in {"S", "K", "T", "sigma", "N"} :
                    \/ c = "S" /\ ~Positive(S)
                    \/ c = "K" /\ ~Positive(K)
                    \/ c = "T" /\ T <= 0
                    \/ c = "sigma" /\ ~Positive(sigma)
                    \/ c = "N" /\ N < 1 })

OptionTypeError == "ValueError: option_type must be 'call' or 'put'"

\* |x - y| <= tol
Within(x, y, tol) ==
    LET diff == RSub(x, y)
    IN  RLe(RNeg(tol), diff) /\ RLe(diff, tol)

\* the backward induction has been entered
InInduction == pc \in {"induction", "return", "done"} /\ N >= 1

\* the indices already updated at the current depth j (all of them once
\* the induction is over)
UpdatedIndices ==
    IF pc = "induction"
    THEN { InnerIndex(j, m) : m \in 0..(i - 1) }
    ELSE 0..j

\* the risk-neutral probability lies strictly between 0 and 1
ArbitrageFree == Positive(p) /\ RLt(p, One)

\* the nodes range(N-1, -1, -1) x range(j+1) visits, in order, from (depth, k)
RECURSIVE VisitsFrom(_, _)
VisitsFrom(depth, k) ==
    IF depth < 0 THEN <<>>
    ELSE IF k > depth THEN VisitsFrom(depth - 1, 0)
    ELSE <<<<depth, k>>>> \o VisitsFrom(depth, k + 1)

IsPrefix(s, t) == Len(s) <= Len(t) /\ SubSeq(t, 1, Len(s)) = s

Terminated == pc \in {"done", "error"}

\* a call that has not ended is at a statement: each statement of Run is
\* guarded by its pc alone, and the two loop steps at "payoff" and at
\* "induction" by a loop test and its negation, so one of them can be taken
Progress ==
    \/ pc = "call"
    \/ Terminated
    \/ pc \in {"delta_t", "factors", "probability", "arrays", "return"}
    \/ pc = "payoff" /\ (i < Length \/ i >= Length)
    \/ pc = "induction" /\ (i < InnerCount(j) \/ i >= InnerCount(j))

\* a natural number that every step of a call decreases: the number of
\* statements still to run, counted generously
Top == 3 + (N + 2) * (N + 2)

Variant ==
    CASE pc = "delta_t" -> Top + Length + 6
      [] pc = "factors" -> Top + Length + 5
      [] pc = "probability" -> Top + Length + 4
      [] pc = "arrays" -> Top + Length + 3
      [] pc = "payoff" -> Top + 1 + (Length - i)
      [] pc = "induction" -> 2 + (InnerCount(j) - i) + j * (N + 2)
      [] pc = "return" -> 1
      [] OTHER -> 0

\* every step of a call decreases the variant, which never goes below 0
StepsDecrease == [][Run => (Variant' < Variant /\ Variant' >= 0)]_vars

(***************************************************************************)
(* C1.  American >= European, node by node.  Stated for parameters that    *)
(* satisfy every precondition; it fails when p is outside [0, 1].          *)
(***************************************************************************)
\* C1: with identical valid parameters and option_type call or put, at every
\* moment of the backward induction every entry of the American buffer is >= the
\* same entry of the European buffer, and the American price returned is >= the
\* European price
C1_AmericanAtLeastEuropean ==
    (InInduction /\ ValidParams /\ Recognised) =>
        /\ \A k \in 1..Len(american_values) :
              RLe(european_values[k], american_values[k])
        /\ pc = "done" => RLe(european_price, american_price)

(***************************************************************************)
(* C2.  An unrecognised option_type with otherwise valid parameters.       *)
(***************************************************************************)
InvalidTypeCall == ValidParams /\ ~Recognised

C2_NoPrice ==
    InvalidTypeCall =>
        /\ pc \notin {"induction", "return", "done"}
        /\ european_price = Undef /\ american_price = Undef
        /\ pc = "payoff" => i = 0
        /\ \A k \in 1..Len(european_values) :
              european_values[k] = Zero /\ american_values[k] = Zero
        /\ pc = "error" => error = OptionTypeError

\* C2: a call with option_type neither 'call' nor 'put' and otherwise valid
\* parameters never reaches the induction or the return statement, writes no
\* payoff into either buffer, and can only end in the option_type ValueError,
\* which it reaches after finitely many steps
C2_InvalidTypeFails ==
    /\ []C2_NoPrice
    /\ [](InvalidTypeCall => Progress)
    /\ StepsDecrease

C2_Witness ==
    /\ InvalidTypeCall
    /\ pc = "error"
    /\ error = OptionTypeError
    /\ Len(european_values) = N + 1

(***************************************************************************)
(* C3.  The option_type error comes before any computation.                *)
(***************************************************************************)
\* C3: with an invalid option_type the first statement executed raises the
\* option_type error: the call is either not started or has failed with that
\* error, with no lattice constant and no asset price computed
C3_ErrorBeforeComputation ==
    (Called /\ ~Recognised) =>
        \/ pc = "delta_t"
        \/ /\ pc = "error"
           /\ error = OptionTypeError
           /\ delta_t = Undef /\ u = Undef /\ d = Undef /\ p = Undef
           /\ asset_prices = <<>>

(***************************************************************************)
(* C4.  Violated preconditions are rejected.                               *)
(***************************************************************************)
\* C4: a call that violates exactly one of S > 0, K > 0, T > 0, sigma > 0,
\* N >= 1 (option_type valid) never returns a price
C4_PreconditionsRejected ==
    (Called /\ Violations = 1 /\ Recognised) =>
        /\ pc # "done"
        /\ european_price = Undef /\ american_price = Undef

(***************************************************************************)
(* C5.  A risk-neutral probability outside (0, 1) is reported.             *)
(***************************************************************************)
\* C5: every execution with valid parameters that reaches the backward
\* induction has 0 < p < 1
C5_ProbabilityReported ==
    (InInduction /\ ValidParams /\ Recognised) => ArbitrageFree

(***************************************************************************)
(* C6.  American call = European call.                                     *)
(***************************************************************************)
\* the exercise value asset_price - K of line 107 does not exceed the
\* continuation value at any node updated at the current depth
NeverExercised ==
    pc = "induction" =>
        \A k \in UpdatedIndices :
            RLe(RSub(AssetPrice(j, k), K), Continuation(american_prev, k))

\* C6 as stated: for option_type 'call', valid parameters and an arbitrage-free
\* lattice (0 < p < 1), whatever the sign of the rate, the two buffers are equal
\* throughout the induction, the exercise value is never selected, and the two
\* prices returned are equal
C6_CallEqualityAnyRate ==
    (InInduction /\ ValidParams /\ option_type = "call" /\ ArbitrageFree) =>
        /\ american_values = european_values
        /\ NeverExercised
        /\ pc = "done" => american_price = european_price

\* C6 amended: the same for rate >= 0 and p <= 1 (exp(r * delta_t) <= u)
C6_CallEqualityNonNegativeRate ==
    (InInduction /\ ValidParams /\ option_type = "call"
        /\ RLe(Zero, r) /\ RLe(p, One)) =>
        /\ american_values = european_values
        /\ NeverExercised
        /\ pc = "done" => american_price = european_price

\* an in-the-money call on a lattice of at least two steps with a positive
\* rate has been priced by both pricers
C6_Witness ==
    /\ pc = "done"
    /\ ValidParams
    /\ option_type = "call"
    /\ Positive(r) /\ RLt(p, One)
    /\ N >= 2
    /\ RLt(K, S)
    /\ Positive(american_price)
    /\ american_price = european_price

(***************************************************************************)
(* C7.  The one-step example S = K = 100, T = 1, r = 0.05, sigma = 0.2.    *)
(***************************************************************************)
OneStepExample ==
    /\ pc = "done"
    /\ S = RInt(100) /\ K = RInt(100) /\ T = 1 /\ N = 1
    /\ r = Rat(1, 20) /\ sigma = Rat(1, 5)
    /\ option_type = "call"

\* p * max(0, S*u - K) * exp(-r*T) + (1 - p) * max(0, S*d - K) * exp(-r*T)
SinglePeriodPrice ==
    RAdd(RMul(RMul(p, RMax(Zero, RSub(RMul(S, u), K))), math_exp(RNeg(RMul(r, RInt(T))))),
         RMul(RMul(RSub(One, p), RMax(Zero, RSub(RMul(S, d), K))), math_exp(RNeg(RMul(r, RInt(T))))))

OneStepShape ==
    /\ visited = << <<0, 0>> >>
    /\ Within(u, Rat(12214, 10000), Rat(5, 100000))
    /\ Within(d, Rat(8187, 10000), Rat(5, 100000))
    /\ european_price = SinglePeriodPrice
    /\ american_price = SinglePeriodPrice

\* C7 as stated: the example is a single-period calculation with u = 1.2214,
\* d = 0.8187, p = 0.6282 and a call price of 11.83 +/- 0.05
C7_OneStepPriceAsStated ==
    OneStepExample =>
        /\ OneStepShape
        /\ Within(p, Rat(6282, 10000), Rat(5, 100000))
        /\ Within(european_price, Rat(1183, 100), Rat(5, 100))

\* C7 amended: the example is a single-period calculation with u = 1.2214,
\* d = 0.8187, p = 0.5775 and a call price of 12.16 +/- 0.05
C7_OneStepPrice ==
    OneStepExample =>
        /\ OneStepShape
        /\ Within(p, Rat(5775, 10000), Rat(5, 100000))
        /\ Within(european_price, Rat(1216, 100), Rat(5, 100))

C7_Witness == OneStepExample /\ Positive(european_price)

(***************************************************************************)
(* C8.  The American node update uses the terminal payoff formula.         *)
(***************************************************************************)
\* C8: with valid parameters, every node (j, k) updated at the current depth of
\* the American induction holds max(continuation, payoff), the payoff being the
\* terminal formula max(0, asset - K) or max(0, K - asset) at the node's price
C8_ExerciseUsesPayoffFormula ==
    (pc = "induction" /\ ValidParams /\ Recognised) =>
        \A k \in UpdatedIndices :
            american_values[k + 1] =
                RMax(Continuation(american_prev, k),
                     TerminalPayoff(option_type, AssetPrice(j, k)))

(***************************************************************************)
(* C9.  The in-place induction equals a fresh vector per depth.            *)
(***************************************************************************)
\* C9: when node (j, k) is about to be computed, entries k and k + 1 of each
\* buffer still hold the values they had when depth j was entered; and every
\* entry already updated at depth j equals the node value computed from the
\* buffer as it was when depth j was entered (the fresh-vector value)
C9_InPlaceEqualsFresh ==
    (pc = "induction" /\ Recognised) =>
        /\ i < InnerCount(j) =>
              LET k == InnerIndex(j, i)
              IN  /\ european_values[k + 1] = european_prev[k + 1]
                  /\ european_values[k + 2] = european_prev[k + 2]
                  /\ american_values[k + 1] = american_prev[k + 1]
                  /\ american_values[k + 2] = american_prev[k + 2]
        /\ \A k \in UpdatedIndices :
              /\ european_values[k + 1] = EuropeanNode(european_prev, k)
              /\ american_values[k + 1] = AmericanNode(american_prev, j, k)

\* index 0 has been overwritten with a new value at a depth >= 1 while index 1
\* is still to be computed
C9_Witness ==
    /\ pc = "induction"
    /\ Recognised
    /\ j >= 1
    /\ i = 1
    /\ european_values[1] # european_prev[1]
    /\ american_values[2] # Zero

(***************************************************************************)
(* C10.  Order of the induction, and termination.                          *)
(***************************************************************************)
C10_Order ==
    (Called /\ N >= 1 /\ Recognised) =>
        /\ IsPrefix(visited, VisitsFrom(N - 1, 0))
        /\ Progress
        /\ (pc = "induction" /\ i < InnerCount(j)) =>
              /\ InnerIndex(j, i) + 1 <= N
              /\ Len(european_values) = N + 1 /\ Len(american_values) = N + 1
        /\ pc \in {"return", "done"} =>
              /\ visited = VisitsFrom(N - 1, 0)
              /\ 2 * Len(visited) = N * (N + 1)
              /\ j = 0
        /\ pc = "done" =>
              /\ european_price = european_values[1]
              /\ american_price = american_values[1]

\* C10: for N >= 1 and a valid option_type the nodes are updated in the order
\* (N-1, 0..N-1), (N-2, 0..N-2), ..., (0, 0), each once, N(N+1)/2 in all, every
\* read staying inside the buffer of N + 1 entries; the price is returned only
\* after depth 0, and it is option_values[0]; and the call ends after finitely
\* many steps (every step decreases a natural number)
C10_OrderAndTermination ==
    /\ []C10_Order
    /\ StepsDecrease

C10_Witness ==
    /\ pc = "done"
    /\ ValidParams
    /\ Recognised
    /\ N = 3
    /\ Len(visited) = 6

====
